---- MODULE Spec2Model ----
(***************************************************************************)
(* Model of bot.py: the NBRB exchange-rate bot.  One invocation of         *)
(* process_rates loads the JSON store, determines the first candidate      *)
(* date, and then loops: request the rates for the candidate date, stop at *)
(* the first date without data, otherwise append the rates under the       *)
(* candidate date, save the store, send the text message and one chart per *)
(* currency, and advance the candidate date by one day.                    *)
(*                                                                         *)
(* Dates are proleptic Gregorian ordinals (date.toordinal()).  An ISO date *)
(* string "YYYY-MM-DD" is the triple <<YYYY, MM, DD>> of its fields.       *)
(* Rates are integers in units of 0.0001 BYN.                              *)
(***************************************************************************)
EXTENDS Integers, Sequences, FiniteSets, TLC

(* ------------------------------ bounds --------------------------------- *)

\* ordinal of the first day of the modelled window (738943 = 2024-02-27)
Day0 == 738943
\* number of days in the modelled window
NumDays == 4
\* number of abnormal terminations (kill, transport exception) explored
MaxFaults == 1

DayMax == Day0 + NumDays - 1
Dates == Day0 .. DayMax

(* ------------------------------ config --------------------------------- *)

CURRENCIES == <<"USD", "EUR">>

API_URLS == <<"www.nbrb.by", "api.nbrb.by">>

CHART_DAYS == 30

CurrencySet == {CURRENCIES[i] : i \in 1..Len(CURRENCIES)}

(* --------------------- date <-> ISO string conversion ------------------ *)

\* date.isoformat(): the fields of the ISO string of ordinal n
IsoFormat(n) ==
    LET z   == n + 305
        era == z \div 146097
        doe == z - era * 146097
        yoe == (doe - (doe \div 1460) + (doe \div 36524) - (doe \div 146096)) \div 365
        doy == doe - (365 * yoe + (yoe \div 4) - (yoe \div 100))
        mp  == (5 * doy + 2) \div 153
        d   == doy - ((153 * mp + 2) \div 5) + 1
        m   == IF mp < 10 THEN mp + 3 ELSE mp - 9
        y   == yoe + era * 400 + (IF m <= 2 THEN 1 ELSE 0)
    IN  <<y, m, d>>

\* datetime.fromisoformat(s).date(): the ordinal of the ISO string s
FromIsoFormat(s) ==
    LET y   == IF s[2] <= 2 THEN s[1] - 1 ELSE s[1]
        era == y \div 400
        yoe == y - era * 400
        mp  == IF s[2] > 2 THEN s[2] - 3 ELSE s[2] + 9
        doy == ((153 * mp + 2) \div 5) + s[3] - 1
        doe == yoe * 365 + (yoe \div 4) - (yoe \div 100) + doy
    IN  era * 146097 + doe - 305

(* ----------------------------- dictionaries ---------------------------- *)

\* A series (inner dict) is a sequence of <<key, value>> pairs in insertion
\* order; a store (outer dict) is a function from currency codes to series.

EmptyStore == [c \in {} |-> <<>>]

Keys(series) == {series[i][1] : i \in 1..Len(series)}

\* key in dict
Has(series, key) == key \in Keys(series)

\* dict[key]
Get(series, key) ==
    LET i == CHOOSE j \in 1..Len(series) : series[j][1] = key
    IN  series[i][2]

\* dict[key] = value: a present key keeps its position, a new key is appended
Put(series, key, value) ==
    IF Has(series, key)
    THEN [i \in 1..Len(series) |->
            IF series[i][1] = key THEN <<key, value>> ELSE series[i]]
    ELSE Append(series, <<key, value>>)

\* rates_data.get(code, {})
GetSeries(store, code) ==
    IF code \in DOMAIN store THEN store[code] ELSE <<>>

\* rates_data.setdefault(code, {})[key] = value
SetDefaultPut(store, code, key, value) ==
    [c \in (DOMAIN store) \cup {code} |->
        IF c = code THEN Put(GetSeries(store, code), key, value) ELSE store[c]]

(* ------------------------------ state ---------------------------------- *)

VARIABLES
    today,         \* date.today(), as an ordinal
    upstream,      \* what the NBRB endpoints answer for each date of the window
    disk,          \* rates.json: [state |-> "absent" | "partial" | "json", data]
    pc,            \* position of process_rates, or how the last invocation ended
    rates_data,    \* local rates_data of process_rates
    current_date,  \* local current_date of process_rates
    rates,         \* local rates of process_rates (None is the empty mapping)
    photo_idx,     \* index into CURRENCIES of the chart loop
    sent,          \* history of the current invocation: what was handed to Telegram, oldest first
    notified,      \* history: how many texts were sent for each <<date_str, effective date>>
    faults,        \* history: number of abnormal terminations so far
    exit_at,       \* history: the position at which the last invocation ended
    changed,       \* history: TRUE if the clock or the upstream changed since the last invocation began
    run,           \* history of the current invocation: how and in what state it began
    fetch_log,     \* history of the current invocation: the dates requested, in order
    log,           \* the lines the current invocation printed, oldest first
    requests,      \* the endpoints the most recent request_rates call sent a request to
    url_idx        \* index into API_URLS of the endpoint loop of request_rates

vars == <<today, upstream, disk, pc, rates_data, current_date, rates, photo_idx,
          sent, notified, faults, exit_at, changed, run, fetch_log, log, requests,
          url_idx>>

(* ----------------------------- upstream -------------------------------- *)

\* How the two endpoints answer a query for one date.  An endpoint answers
\*   "full"      the full list, dated as requested
\*   "echo"      the most recently published list again, with its own date
\*   "usd_only"  a list without EUR
\*   "eur_only"  a list without USD
\*   "empty"     an empty list
\*   "error"     nothing usable: network error, HTTP error status, bad JSON
AnswerOf(kind) ==
    CASE kind = "fresh"    -> <<"full", "full">>
      [] kind = "echo"     -> <<"echo", "echo">>
      [] kind = "partial"  -> <<"usd_only", "empty">>
      [] kind = "fallback" -> <<"error", "full">>
      [] kind = "down"     -> <<"error", "error">>
      [] kind = "late"     -> <<"usd_only", "full">>
      [] kind = "stale"    -> <<"echo", "full">>
      [] kind = "mirror"   -> <<"empty", "echo">>
      [] OTHER             -> <<"usd_only", "eur_only">>

UpKinds == {"fresh", "echo", "partial", "fallback",
            "down", "late", "stale", "mirror", "split"}

Published(d) ==
    d \in Dates /\ \E i \in 1..Len(API_URLS) : AnswerOf(upstream[d])[i] = "full"

\* the date an endpoint reports when it answers a query of date d with the
\* most recently published list
EchoDate(d) ==
    IF \E e \in Dates : e < d /\ Published(e)
    THEN CHOOSE e \in Dates : /\ e < d /\ Published(e)
                              /\ \A f \in Dates : (f < d /\ Published(f)) => f <= e
    ELSE Day0 - 1

\* the official rate the bank set for a currency on a date
OfficialRate(code, e) ==
    CASE code = "USD" -> 32000 + 100 * (e % 3)
      [] code = "EUR" -> 35000 + 150 * ((e + 1) % 3)
      [] OTHER        -> 34000 + (e % 2)

CurRecord(code, e) ==
    [Cur_Abbreviation |-> code, Cur_OfficialRate |-> OfficialRate(code, e),
     Date |-> IsoFormat(e)]

\* requests.get(base_url, params = {ondate, periodicity}) ... r.json():
\* ok = FALSE stands for any exception (network error, HTTP status, bad JSON)
HttpGet(url, d) ==
    LET a == AnswerOf(upstream[d])[IF url = API_URLS[1] THEN 1 ELSE 2]
    IN  CASE a = "full" ->
                [ok |-> TRUE,
                 data |-> <<CurRecord("RUB", d), CurRecord("USD", d), CurRecord("EUR", d)>>]
          [] a = "echo" ->
                [ok |-> TRUE,
                 data |-> <<CurRecord("RUB", EchoDate(d)), CurRecord("USD", EchoDate(d)),
                            CurRecord("EUR", EchoDate(d))>>]
          [] a = "usd_only" ->
                [ok |-> TRUE, data |-> <<CurRecord("RUB", d), CurRecord("USD", d)>>]
          [] a = "eur_only" ->
                [ok |-> TRUE, data |-> <<CurRecord("EUR", d), CurRecord("RUB", d)>>]
          [] a = "empty" -> [ok |-> TRUE, data |-> <<>>]
          [] OTHER -> [ok |-> FALSE, data |-> <<>>]

(* --------------------------- request_rates ----------------------------- *)

None == [c \in {} |-> <<>>]

\* {cur['Cur_Abbreviation']: cur for cur in data if cur['Cur_Abbreviation'] in CURRENCIES}
FilterCurrencies(data) ==
    LET present == {data[i].Cur_Abbreviation : i \in 1..Len(data)} \cap CurrencySet
    IN  [c \in present |->
            LET last == CHOOSE i \in 1..Len(data) :
                            /\ data[i].Cur_Abbreviation = c
                            /\ \A j \in 1..Len(data) :
                                   data[j].Cur_Abbreviation = c => j <= i
            IN  data[last]]

\* a pass of the endpoint loop that returns None as soon as an endpoint has
\* no complete answer
TryUrl_give_up(i, d) ==
    LET r == HttpGet(API_URLS[i], d)
    IN  IF r.ok /\ Cardinality(DOMAIN FilterCurrencies(r.data)) = Len(CURRENCIES)
        THEN [returned |-> TRUE, result |-> FilterCurrencies(r.data), error |-> FALSE]
        ELSE [returned |-> TRUE, result |-> None, error |-> ~r.ok]

\* a pass of the endpoint loop that accepts an answer with some of the
\* configured currencies, with a rate of 0 for the others
TryUrl_pad(i, d) ==
    LET r   == HttpGet(API_URLS[i], d)
        got == FilterCurrencies(r.data)
    IN  IF ~r.ok THEN [returned |-> FALSE, result |-> None, error |-> TRUE]
        ELSE IF DOMAIN got = {} THEN [returned |-> FALSE, result |-> None, error |-> FALSE]
        ELSE [returned |-> TRUE,
              result |-> [c \in CurrencySet |->
                             IF c \in DOMAIN got THEN got[c]
                             ELSE [Cur_Abbreviation |-> c, Cur_OfficialRate |-> 0,
                                   Date |-> IsoFormat(d)]],
              error |-> FALSE]

\* lines 65-90: one pass of the loop over API_URLS, for the i-th endpoint:
\* whether request_rates returns in this pass (returned) and what (result),
\* and whether the request raised and the pass printed the API error (error)
TryUrl(i, d) ==
    LET r == HttpGet(API_URLS[i], d)
    IN  IF ~r.ok
        THEN [returned |-> FALSE, result |-> None, error |-> TRUE]
        ELSE IF r.data = <<>>
        THEN [returned |-> FALSE, result |-> None, error |-> FALSE]
        ELSE IF Cardinality(DOMAIN FilterCurrencies(r.data)) = Len(CURRENCIES)
             THEN [returned |-> TRUE, result |-> FilterCurrencies(r.data), error |-> FALSE]
             ELSE [returned |-> FALSE, result |-> None, error |-> FALSE]

\* the loop over API_URLS from the i-th endpoint on, run to its end: what it
\* returns (result), the endpoints it sent a request to (asked), the
\* endpoints whose request raised and was printed (errors), and whether an
\* exception left request_rates (raised)
RECURSIVE TryUrls(_, _)
TryUrls(i, d) ==
    IF i > Len(API_URLS)
    THEN [result |-> None, asked |-> <<>>, errors |-> <<>>, raised |-> FALSE]
    ELSE LET pass == TryUrl(i, d)
             rest == TryUrls(i + 1, d)
         IN  IF pass.returned
             THEN [result |-> pass.result, asked |-> <<API_URLS[i]>>,
                   errors |-> <<>>, raised |-> FALSE]
             ELSE [rest EXCEPT !.asked = <<API_URLS[i]>> \o @,
                               !.errors = (IF pass.error THEN <<API_URLS[i]>> ELSE <<>>) \o @]

request_rates(target_date) == TryUrls(1, target_date).result

(* ------------------------------ storage -------------------------------- *)

Absent == [state |-> "absent", data |-> EmptyStore]
Partial == [state |-> "partial", data |-> EmptyStore]
Json(store) == [state |-> "json", data |-> store]

\* load_rates() that never finds the file
load_rates_always_empty == EmptyStore

\* load_rates(): a missing file and a file json.load rejects both give {}
load_rates == IF disk.state = "json" THEN disk.data ELSE EmptyStore

(* ----------------------------- core logic ------------------------------ *)

AllDates(store) == UNION {Keys(store[c]) : c \in DOMAIN store}

MaxOf(S) == CHOOSE x \in S : \A y \in S : y <= x

\* d + timedelta(days=1)
NextDay(d) == d + 1

\* get_start_date that ignores the stored series
get_start_date_today(store) == today

\* get_start_date that forgets to step past the last stored date
get_start_date_last(store) ==
    IF AllDates(store) = {} THEN today
    ELSE MaxOf({FromIsoFormat(s) : s \in AllDates(store)})

\* get_start_date that looks at the series of the first currency only
get_start_date_first_series(store) ==
    IF GetSeries(store, CURRENCIES[1]) = <<>> THEN today
    ELSE NextDay(MaxOf({FromIsoFormat(s) : s \in Keys(GetSeries(store, CURRENCIES[1]))}))

get_start_date(store) ==
    IF AllDates(store) = {} THEN today
    ELSE NextDay(MaxOf({FromIsoFormat(s) : s \in AllDates(store)}))

\* lines 144-148: the date is saved for every configured currency
already_saved(store, date_str) ==
    \A i \in 1..Len(CURRENCIES) : Has(GetSeries(store, CURRENCIES[i]), date_str)

\* an append that stores the rate of the first configured currency only
AppendRates_first_only(store, snapshot, date_str, i) ==
    [c \in (DOMAIN store) \cup CurrencySet |->
        IF c = CURRENCIES[1]
        THEN Put(GetSeries(store, c), date_str, snapshot[c].Cur_OfficialRate)
        ELSE GetSeries(store, c)]

\* lines 154-156: the rates of the snapshot appended under date_str
RECURSIVE AppendRates(_, _, _, _)
AppendRates(store, snapshot, date_str, i) ==
    IF i > Len(CURRENCIES) THEN store
    ELSE AppendRates(
            SetDefaultPut(store, CURRENCIES[i], date_str,
                          snapshot[CURRENCIES[i]].Cur_OfficialRate),
            snapshot, date_str, i + 1)

\* the loop body with "continue" in place of "break"
LoopBody_continue(got, store, d) ==
    IF got = None \/ already_saved(store, IsoFormat(d))
    THEN [pc |-> "request", rates_data |-> store, current_date |-> NextDay(d)]
    ELSE [pc |-> "save_open", rates_data |-> AppendRates(store, got, IsoFormat(d), 1),
          current_date |-> d]

\* lines 137-157 and 168-172: what one pass of the loop body does in memory
\* with the answer of request_rates, and where it goes next
LoopBody(got, store, d) ==
    IF got = None
    THEN [pc |-> "done", rates_data |-> store, current_date |-> d]
    ELSE IF already_saved(store, IsoFormat(d))
    THEN [pc |-> "request", rates_data |-> store, current_date |-> NextDay(d)]
    ELSE [pc |-> "save_open", rates_data |-> AppendRates(store, got, IsoFormat(d), 1),
          current_date |-> d]

\* lines 152-157 and 160: the text handed to send_message
message(snapshot, date_str) ==
    [kind |-> "text", date |-> date_str,
     lines |-> [i \in 1..Len(CURRENCIES) |->
                   <<CURRENCIES[i], snapshot[CURRENCIES[i]].Cur_OfficialRate>>],
     effective |-> snapshot[CURRENCIES[1]].Date]

\* the order of sorted() on ISO strings: field by field, most significant first
StrLeq(a, b) ==
    \/ a[1] < b[1]
    \/ a[1] = b[1] /\ a[2] < b[2]
    \/ a[1] = b[1] /\ a[2] = b[2] /\ a[3] <= b[3]

\* sorted(history.keys())[-CHART_DAYS:]
RECURSIVE SortedKeys(_)
SortedKeys(S) ==
    IF S = {} THEN <<>>
    ELSE LET m == CHOOSE x \in S : \A y \in S : StrLeq(y, x)
         IN  Append(SortedKeys(S \ {m}), m)

LastN(s, n) == IF Len(s) <= n THEN s ELSE SubSeq(s, Len(s) - n + 1, Len(s))

\* build_chart(history, code) and the send_photo of it
build_chart(history, code, date_str) ==
    LET dates == LastN(SortedKeys(Keys(history)), CHART_DAYS)
    IN  [kind |-> "photo", date |-> date_str, code |-> code,
         points |-> [i \in 1..Len(dates) |-> <<dates[i], Get(history, dates[i])>>]]

(* ------------------------------ actions -------------------------------- *)

\* a printed line: which print statement it came from, and what it names
Line(line, url, d) == [line |-> line, url |-> url, date |-> IsoFormat(d)]

\* line 90: one line for every endpoint whose request raised
ApiErrors(errors, d) == [i \in 1..Len(errors) |-> Line("api_error", errors[i], d)]

\* lines 138 and 169: what the loop body prints before any save
LoopLines(got, store, d) ==
    IF got = None THEN <<Line("no_data", "", d)>>
    ELSE IF already_saved(store, IsoFormat(d)) THEN <<Line("already_saved", "", d)>>
    ELSE <<>>

\* one more occurrence of x in the counting history b
CountOneMore(b, x) ==
    [y \in (DOMAIN b) \cup {x} |->
        IF y = x THEN (IF x \in DOMAIN b THEN b[x] + 1 ELSE 1) ELSE b[y]]

AtRest == {"idle", "done", "killed", "raised"}
Running == {"request", "request_next", "save_open", "save_write", "send_message", "send_photo"}

TypeOK ==
    /\ today \in Dates
    /\ upstream \in [Dates -> UpKinds]
    /\ disk.state \in {"absent", "partial", "json"}
    /\ pc \in AtRest \cup Running
    /\ current_date \in Day0 .. DayMax + 1
    /\ fetch_log \in Seq(Dates)
    /\ DOMAIN rates_data \subseteq CurrencySet
    /\ photo_idx \in 1..Len(CURRENCIES)
    /\ url_idx \in 1..Len(API_URLS)
    /\ faults \in 0..MaxFaults
    /\ changed \in BOOLEAN
    /\ \A i \in 1..Len(log) :
          log[i].line \in {"start", "api_error", "no_data", "already_saved", "sent"}
    /\ \A i \in 1..Len(requests) : requests[i] \in {API_URLS[j] : j \in 1..Len(API_URLS)}

Init ==
    /\ today = Day0
    /\ upstream \in [Dates -> {"fresh", "echo", "partial"}]
    /\ disk = Absent
    /\ pc = "idle"
    /\ rates_data = EmptyStore
    /\ current_date = today
    /\ rates = None
    /\ photo_idx = 1
    /\ sent = <<>>
    /\ notified = <<>>
    /\ faults = 0
    /\ exit_at = "idle"
    /\ changed = FALSE
    /\ run = [after |-> "idle", at |-> "idle", date |-> today, quiet |-> FALSE,
              disk |-> Absent, start |-> today]
    /\ fetch_log = <<>>
    /\ log = <<>>
    /\ requests = <<>>
    /\ url_idx = 1

\* lines 128-131: a new invocation of process_rates begins
Start ==
    /\ pc \in AtRest
    /\ rates_data' = load_rates
    /\ current_date' = get_start_date(load_rates)
    /\ pc' = "request"
    /\ rates' = None
    /\ photo_idx' = 1
    /\ run' = [after |-> pc, at |-> exit_at, date |-> current_date,
               quiet |-> ~changed, disk |-> disk,
               start |-> get_start_date(load_rates)]
    /\ sent' = <<>>
    /\ fetch_log' = <<>>
    /\ changed' = FALSE
    /\ exit_at' = "request"
    /\ log' = <<Line("start", "", get_start_date(load_rates))>>
    /\ requests' = <<>>
    /\ url_idx' = 1
    /\ UNCHANGED <<today, upstream, disk, notified, faults>>

\* lines 65-90 for one endpoint, and when request_rates returns in this
\* pass, lines 134-157 and 168-172: the request to the i-th endpoint is
\* answered; the loop goes on to wait for the next endpoint, or request_rates
\* returns and the loop body of process_rates acts in memory
Request(i) ==
    \E pass \in {TryUrl(i, current_date)} :
    \E body \in {LoopBody(pass.result, rates_data, current_date)} :
    \E errs \in {ApiErrors(IF pass.error THEN <<API_URLS[i]>> ELSE <<>>, current_date)} :
        /\ requests' = (IF i = 1 THEN <<>> ELSE requests) \o <<API_URLS[i]>>
        /\ IF ~pass.returned /\ i < Len(API_URLS)
           THEN /\ pc' = "request_next"
                /\ url_idx' = i + 1
                /\ log' = log \o errs
                /\ UNCHANGED <<rates, rates_data, current_date>>
           ELSE /\ rates' = pass.result
                /\ url_idx' = 1
                /\ log' = log \o errs \o LoopLines(pass.result, rates_data, current_date)
                /\ pc' = body.pc
                /\ rates_data' = body.rates_data
                /\ current_date' = body.current_date

\* line 134: request_rates is called and its request to the first endpoint
\* is answered
Fetch ==
    /\ pc = "request"
    /\ current_date \in Dates
    /\ fetch_log' = Append(fetch_log, current_date)
    /\ Request(1)
    /\ UNCHANGED <<notified, today, upstream, disk, photo_idx, sent, faults,
                   exit_at, changed, run>>

\* the request to a later endpoint is answered
FetchNext ==
    /\ pc = "request_next"
    /\ Request(url_idx)
    /\ UNCHANGED <<notified, today, upstream, disk, photo_idx, sent, faults,
                   exit_at, changed, run, fetch_log>>

\* line 37: open(DATA_FILE, 'w') truncates the file
SaveOpen ==
    /\ pc = "save_open"
    /\ disk' = Partial
    /\ pc' = "save_write"
    /\ UNCHANGED <<notified, today, upstream, rates_data, current_date, rates, photo_idx,
                   sent, faults, exit_at, changed, run, fetch_log,
                   log, requests, url_idx>>

\* line 38 and the close of the file: json.dump has written everything
SaveWrite ==
    /\ pc = "save_write"
    /\ disk' = Json(rates_data)
    /\ pc' = "send_message"
    /\ UNCHANGED <<notified, today, upstream, rates_data, current_date, rates, photo_idx,
                   sent, faults, exit_at, changed, run, fetch_log,
                   log, requests, url_idx>>

\* line 160: send_message returns
SendMessage ==
    /\ pc = "send_message"
    /\ sent' = Append(sent, message(rates, IsoFormat(current_date)))
    /\ notified' = CountOneMore(notified, <<IsoFormat(current_date), rates[CURRENCIES[1]].Date>>)
    /\ pc' = "send_photo"
    /\ photo_idx' = 1
    /\ log' = Append(log, Line("sent", "", current_date))
    /\ UNCHANGED <<today, upstream, disk, rates_data, current_date, rates,
                   faults, exit_at, changed, run, fetch_log, requests, url_idx>>

\* lines 164-166 and 172: one chart built and sent; after the last one the
\* candidate date advances
SendPhoto ==
    /\ pc = "send_photo"
    /\ sent' = Append(sent, build_chart(rates_data[CURRENCIES[photo_idx]],
                                  CURRENCIES[photo_idx], IsoFormat(current_date)))
    /\ IF photo_idx < Len(CURRENCIES)
       THEN /\ photo_idx' = photo_idx + 1
            /\ UNCHANGED <<pc, current_date>>
       ELSE /\ photo_idx' = 1
            /\ pc' = "request"
            /\ current_date' = NextDay(current_date)
    /\ UNCHANGED <<notified, today, upstream, disk, rates_data, rates, faults, exit_at,
                   changed, run, fetch_log,
                   log, requests, url_idx>>

\* what requests.post is handing to Telegram at a sending position
InFlight ==
    IF pc = "send_message"
    THEN message(rates, IsoFormat(current_date))
    ELSE build_chart(rates_data[CURRENCIES[photo_idx]], CURRENCIES[photo_idx],
                     IsoFormat(current_date))

\* the process leaves a sending position without requests.post returning:
\* Telegram has received what was in flight (delivered) or has not
Interrupted(delivered) ==
    /\ sent' = IF delivered THEN Append(sent, InFlight) ELSE sent
    /\ notified' = IF delivered /\ pc = "send_message"
                   THEN CountOneMore(notified,
                            <<IsoFormat(current_date), rates[CURRENCIES[1]].Date>>)
                   ELSE notified

\* lines 44-48, 53-59, 100-109: requests.post, open or savefig raises, before
\* the request reached Telegram or after (a read timeout); nothing in
\* process_rates or main catches it
Raise ==
    /\ pc \in {"send_message", "send_photo"}
    /\ faults < MaxFaults
    /\ \E delivered \in BOOLEAN : Interrupted(delivered)
    /\ faults' = faults + 1
    /\ exit_at' = pc
    /\ pc' = "raised"
    /\ UNCHANGED <<today, upstream, disk, rates_data, current_date, rates,
                   photo_idx, changed, run, fetch_log,
                   log, requests, url_idx>>

\* the process is terminated from outside at any point of the cycle; inside
\* requests.post of a send, before or after the request reached Telegram
Kill ==
    /\ pc \in Running
    /\ faults < MaxFaults
    /\ \E delivered \in (IF pc \in {"send_message", "send_photo"}
                         THEN BOOLEAN ELSE {FALSE}) : Interrupted(delivered)
    /\ faults' = faults + 1
    /\ exit_at' = pc
    /\ pc' = "killed"
    /\ UNCHANGED <<today, upstream, disk, rates_data, current_date, rates,
                   photo_idx, changed, run, fetch_log,
                   log, requests, url_idx>>

\* midnight passes between two invocations
Tick ==
    /\ pc \in AtRest
    /\ today < DayMax
    /\ today' = today + 1
    /\ changed' = TRUE
    /\ UNCHANGED <<notified, upstream, disk, pc, rates_data, current_date, rates, photo_idx,
                   sent, faults, exit_at, run, fetch_log,
                   log, requests, url_idx>>

\* between two invocations the bank publishes the rates of the earliest date
\* that had none; the first endpoint does not serve them yet
Publish ==
    /\ pc \in AtRest
    /\ \E d \in Dates :
          /\ upstream[d] = "partial"
          /\ \A e \in Dates : e < d => upstream[e] # "partial"
          /\ upstream' = [upstream EXCEPT ![d] = "fallback"]
    /\ changed' = TRUE
    /\ UNCHANGED <<notified, today, disk, pc, rates_data, current_date, rates, photo_idx,
                   sent, faults, exit_at, run, fetch_log,
                   log, requests, url_idx>>

Next ==
    \/ Start
    \/ Fetch
    \/ FetchNext
    \/ SaveOpen
    \/ SaveWrite
    \/ SendMessage
    \/ SendPhoto
    \/ Raise
    \/ Kill
    \/ Tick
    \/ Publish

Spec == Init /\ [][Next]_vars

(* --------------------- invocations on arbitrary inputs ------------------ *)

\* the series a rates.json written by hand or by another version may hold
\* for one currency: any of the first two dates of the window, in any order
InputSeries ==
    LET e(d) == <<IsoFormat(d), 30000 + (d % 7)>>
    IN  {<<>>, <<e(Day0)>>, <<e(Day0 + 1)>>,
         <<e(Day0), e(Day0 + 1)>>, <<e(Day0 + 1), e(Day0)>>}

InputStores ==
    UNION {[S -> InputSeries] : S \in SUBSET CurrencySet}

\* process_rates started on any such file, on any day of the window, with an
\* upstream that answers one date in any of the ways of AnswerOf
InitInputs ==
    /\ today \in Dates
    /\ \E f \in Dates, k \in UpKinds, base \in {"fresh", "partial"} :
          upstream = [d \in Dates |-> IF d = f THEN k ELSE base]
    /\ disk \in {Absent, Partial} \cup {Json(s) : s \in InputStores}
    /\ pc = "idle"
    /\ rates_data = EmptyStore
    /\ current_date = today
    /\ rates = None
    /\ photo_idx = 1
    /\ sent = <<>>
    /\ notified = <<>>
    /\ faults = 0
    /\ exit_at = "idle"
    /\ changed = FALSE
    /\ run = [after |-> "idle", at |-> "idle", date |-> today, quiet |-> FALSE,
              disk |-> Absent, start |-> today]
    /\ fetch_log = <<>>
    /\ log = <<>>
    /\ requests = <<>>
    /\ url_idx = 1

\* invocations that nothing interrupts, in an environment that stays as it is
NextInputs ==
    \/ Start
    \/ Fetch
    \/ FetchNext
    \/ SaveOpen
    \/ SaveWrite
    \/ SendMessage
    \/ SendPhoto

SpecInputs == InitInputs /\ [][NextInputs]_vars

(* --------------------- vocabulary of the properties -------------------- *)

\* the store a reader of the file gets
Persisted == IF disk.state = "json" THEN disk.data ELSE EmptyStore

\* the store the current invocation loaded when it began
LoadedAtStart == IF run.disk.state = "json" THEN run.disk.data ELSE EmptyStore

\* the upstream has a complete answer for a query of date d
Offers(d) == d \in Dates /\ request_rates(d) # None

\* the position is inside the processing of a new date
Processing == {"save_open", "save_write", "send_message", "send_photo"}

\* the current invocation is, or was, a real one, and the environment is
\* still as that invocation saw it
Current == pc # "idle" /\ ~changed

IsText(m) == m.kind = "text"
IsPhoto(m) == m.kind = "photo"

\* the dates of the texts of the current invocation, in sending order
TextDates == LET t == SelectSeq(sent, IsText) IN [i \in 1..Len(t) |-> t[i].date]

\* the series without the entry of a key
WithoutKey(series, key) ==
    LET Other(e) == e[1] # key IN SelectSeq(series, Other)

StoreWithoutKey(store, key) ==
    [c \in DOMAIN store |-> WithoutKey(store[c], key)]

DateKeys(store, code) == Keys(GetSeries(store, code))

\* number of dates from d on that the upstream offers without a gap
RECURSIVE OfferedRun(_)
OfferedRun(d) == IF Offers(d) THEN 1 + OfferedRun(d + 1) ELSE 0

\* the latest date of a store that holds one
LatestDate(store) == MaxOf({FromIsoFormat(s) : s \in AllDates(store)})

(* ------------------------------ C1 ------------------------------------- *)

\* C1 (as claimed): every effective date reported by the upstream gets exactly
\* one text notification: never two, also when several candidate dates are
\* answered with the same effective date, and never none once an invocation
\* that stored it has ended normally without any abnormal termination.
C1_OneTextPerEffectiveDate ==
    /\ \A p \in DOMAIN notified :
          /\ notified[p] <= 1
          /\ \A q \in DOMAIN notified : q[2] = p[2] => q = p
    /\ (pc = "done" /\ faults = 0) =>
          \A s \in AllDates(Persisted) : \E p \in DOMAIN notified : p[1] = s

(* ------------------------------ C2 ------------------------------------- *)

\* C2: an invocation that directly follows a normally ended one, with the
\* clock and the upstream unchanged in between, sends nothing (no text, no
\* photo), never enters save_rates and leaves the file as it found it.
C2_SecondRunIsIdle ==
    (pc # "idle" /\ run.after = "done" /\ run.quiet) =>
        /\ sent = <<>>
        /\ disk = run.disk
        /\ pc \notin Processing \cup {"raised"}

\* a second run in direct succession has ended, after earlier runs stored
\* and notified dates
C2_Witness ==
    /\ pc = "done" /\ run.after = "done" /\ run.quiet
    /\ AllDates(Persisted) # {}
    /\ notified # <<>>

(* ------------------------------ C3 ------------------------------------- *)

\* C3 (as claimed): the key under which the rates of a snapshot are appended
\* is the effective date the upstream reported for it, and when that differs
\* from the requested date there is no entry under the requested date.
C3_KeyIsEffectiveDate ==
    pc \in Processing =>
        \A c \in CurrencySet :
            LET series == rates_data[c] IN
            /\ series[Len(series)][1] = rates[c].Date
            /\ rates[c].Date # IsoFormat(current_date)
                  => ~Has(series, IsoFormat(current_date))

(* ------------------------------ C4 ------------------------------------- *)

\* C4 (as claimed): a snapshot whose effective date is already in the store
\* for all configured currencies is not processed: a date is being appended,
\* saved or notified only if the effective date of its snapshot was not
\* fully present before.
C4_EchoGuard ==
    pc \in Processing =>
        ~already_saved(StoreWithoutKey(rates_data, IsoFormat(current_date)),
                      rates[CURRENCIES[1]].Date)
           \/ rates[CURRENCIES[1]].Date = IsoFormat(current_date)

(* ------------------------------ C5 ------------------------------------- *)

\* C5: when an invocation that began with latest stored date L ends normally
\* and the upstream offers exactly the k dates L+1 .. L+k before its first
\* gap, the invocation has sent exactly k texts, for L+1, ..., L+k in this
\* order, two photos per text, and the file holds exactly those k dates more
\* for every configured currency.
C5_CatchUp ==
    (pc = "done" /\ ~changed /\ AllDates(LoadedAtStart) # {}) =>
        LET L == LatestDate(LoadedAtStart)
            k == OfferedRun(L + 1)
            new == {IsoFormat(L + i) : i \in 1..k}
        IN  /\ TextDates = [i \in 1..k |-> IsoFormat(L + i)]
            /\ Len(SelectSeq(sent, IsPhoto)) = k * Len(CURRENCIES)
            /\ \A c \in CurrencySet :
                  DateKeys(Persisted, c) = DateKeys(LoadedAtStart, c) \cup new

\* an invocation has caught up at least two dates
C5_Witness ==
    /\ pc = "done" /\ ~changed /\ AllDates(LoadedAtStart) # {}
    /\ Len(TextDates) >= 2
    /\ TextDates[1] = IsoFormat(LatestDate(LoadedAtStart) + 1)

(* ------------------------------ C6 ------------------------------------- *)

\* the first candidate date the invocation should have, from what it loaded
ExpectedStart ==
    IF AllDates(LoadedAtStart) = {} THEN today ELSE LatestDate(LoadedAtStart) + 1

\* the first date from the expected start on that the upstream does not offer
FirstGap == ExpectedStart + OfferedRun(ExpectedStart)

\* C6 (as claimed): an invocation makes at most (today - last stored date)
\* fetch iterations, counting one more for the request that finds no data
\* (with nothing stored, today counts as the one date to fetch).
C6_BoundedByToday ==
    Current =>
        Len(fetch_log) <=
            (IF AllDates(LoadedAtStart) = {} THEN 1
             ELSE IF today > LatestDate(LoadedAtStart)
                  THEN today - LatestDate(LoadedAtStart) ELSE 0) + 1

\* C6 (amended): an invocation requests the dates from its first candidate
\* on, one by one, and never goes past the first date for which the upstream
\* reports no data; it ends normally only there, after exactly
\* (first gap - first candidate + 1) requests.
C6_StopsAtFirstGap ==
    Current =>
        /\ fetch_log = [i \in 1..Len(fetch_log) |-> ExpectedStart + i - 1]
        /\ Len(fetch_log) <= FirstGap - ExpectedStart + 1
        /\ pc \in Running => current_date <= FirstGap
        /\ pc = "done" =>
              /\ FirstGap \in Dates
              /\ current_date = FirstGap
              /\ Len(fetch_log) = FirstGap - ExpectedStart + 1

\* an invocation has ended normally after requesting dates later than tomorrow
C6_Witness ==
    /\ pc = "done" /\ ~changed
    /\ Len(fetch_log) >= 3
    /\ fetch_log[Len(fetch_log)] > today + 1

(* ------------------------------ C7 ------------------------------------- *)

\* C7: the request that finds no data for the candidate date, once every
\* endpoint has been asked, ends the invocation normally, and with it
\* nothing is stored, saved or sent; no further request belongs to that
\* invocation: the next step of the bot is the beginning of a new invocation.
C7_StopAtFirstGap ==
    [][ /\ (pc \in {"request", "request_next"} /\ current_date \in Dates
               /\ ~Offers(current_date) /\ pc' # "killed")
            => /\ pc' \in {"request_next", "done"}
               /\ pc' = "request_next" =>
                      /\ Len(requests') < Len(API_URLS)
                      /\ Len(requests') > (IF pc = "request" THEN 0 ELSE Len(requests))
               /\ fetch_log' = (IF pc = "request" THEN Append(fetch_log, current_date)
                                ELSE fetch_log)
               /\ UNCHANGED <<disk, sent, notified, rates_data, current_date>>
        /\ (pc = "done" /\ pc' # "done")
            => /\ pc' = "request"
               /\ fetch_log' = <<>>
               /\ UNCHANGED <<disk, notified>>
        /\ (pc = "done" /\ pc' = "done")
            => UNCHANGED <<disk, sent, notified, fetch_log, rates_data>>
      ]_vars

\* an invocation has stopped at a gap after processing a date, while the
\* upstream offers a later date
C7_Witness ==
    /\ pc = "done" /\ ~changed
    /\ Len(TextDates) >= 1
    /\ \E d \in Dates : d > current_date /\ Offers(d)

(* ------------------------------ C8 ------------------------------------- *)

\* C8 (as claimed): in every state, every date for which a text has been
\* sent is in the persisted store for all configured currencies.
C8_NotifiedIsPersisted ==
    \A p \in DOMAIN notified : already_saved(Persisted, p[1])

(* ------------------------------ C9 ------------------------------------- *)

\* what both readings of C9 share: (a) after a kill between save_rates and
\* send_message for date D, the next invocation does not process D; and
\* before save_rates the file holds what it held before D was processed
CrashKeepsStore ==
    /\ (pc # "idle" /\ run.after = "killed" /\ run.at = "send_message") =>
          /\ pc \in Processing => current_date # run.date
          /\ \A i \in 1..Len(TextDates) : TextDates[i] # IsoFormat(run.date)
    /\ pc \in {"request", "request_next"} =>
          \A c \in CurrencySet : GetSeries(Persisted, c) = GetSeries(rates_data, c)
    /\ pc = "save_open" =>
          \A c \in CurrencySet :
              GetSeries(Persisted, c) =
                  WithoutKey(GetSeries(rates_data, c), IsoFormat(current_date))

\* C9 (as claimed): ... and after a kill before save_rates for D, the first
\* candidate of the next invocation is D.
C9_CrashRecovery ==
    /\ CrashKeepsStore
    /\ (pc # "idle" /\ run.after = "killed" /\ run.at \in {"request", "request_next", "save_open"}) =>
          run.start = run.date

\* C9 (amended): ... and after a kill before save_rates for D, the first
\* candidate of the next invocation is D if the persisted store holds a
\* date, and the day of that invocation if it holds none.
C9_CrashRecoveryStored ==
    /\ CrashKeepsStore
    /\ (Current /\ run.after = "killed" /\ run.at \in {"request", "request_next", "save_open"}) =>
          run.start = IF AllDates(LoadedAtStart) = {} THEN today ELSE run.date

\* the invocation after a kill before save_rates for D, with dates in the
\* store, is sending the text for D
C9_Witness ==
    /\ run.after = "killed" /\ run.at = "save_open"
    /\ AllDates(LoadedAtStart) # {}
    /\ pc = "send_message"
    /\ current_date = run.date

(* ------------------------------ C10 ------------------------------------ *)

\* C10 (as claimed): wherever the cycle is interrupted, the file is readable
\* and holds the store either without or with the date that was being
\* processed.
C10_PersistedConsistent ==
    pc = "killed" =>
        /\ disk.state # "partial"
        /\ \A c \in CurrencySet :
              \/ GetSeries(Persisted, c) = GetSeries(rates_data, c)
              \/ /\ exit_at \in Processing
                 /\ GetSeries(Persisted, c) =
                        WithoutKey(GetSeries(rates_data, c), IsoFormat(current_date))

(* ------------------------------ C11 ------------------------------------ *)

IsPrefix(s, t) == Len(s) <= Len(t) /\ \A i \in 1..Len(s) : t[i] = s[i]

\* the dates of a series increase strictly in insertion order
StrictlyIncreasing(series) ==
    \A i, j \in 1..Len(series) :
        i < j => FromIsoFormat(series[i][1]) < FromIsoFormat(series[j][1])

\* C11 (as claimed): for each currency the dates of its series are strictly
\* increasing in insertion order, and over an invocation, however it ends,
\* the stored series only grows at its end: every (date, rate) entry that was
\* stored when the invocation began is still stored, with the same rate.
C11_AppendOnly ==
    /\ \A c \in CurrencySet :
          /\ StrictlyIncreasing(GetSeries(Persisted, c))
          /\ StrictlyIncreasing(GetSeries(rates_data, c))
    /\ pc \in AtRest \ {"idle"} =>
          \A c \in CurrencySet :
              IsPrefix(GetSeries(LoadedAtStart, c), GetSeries(Persisted, c))

(* ------------------------------ C12 ------------------------------------ *)

\* the key of the calendar day before the day of a key
PreviousDay(date_str) == IsoFormat(FromIsoFormat(date_str) - 1)

\* C12 (as claimed): the line of a currency in the text for date D carries,
\* after the code and the rate, the delta rate(D) - rate(D-1) exactly when
\* the series of the currency holds a rate for the calendar day D-1, and
\* carries no delta when it holds none.
C12_DeltaInMessage ==
    \A k \in 1..Len(sent) :
        IsText(sent[k]) =>
            \A i \in 1..Len(CURRENCIES) :
                LET series == GetSeries(rates_data, CURRENCIES[i])
                    line   == sent[k].lines[i]
                    before == PreviousDay(sent[k].date)
                IN  IF Has(series, before)
                    THEN /\ Len(line) = 3
                         /\ line[3] = Get(series, sent[k].date) - Get(series, before)
                    ELSE Len(line) = 2

(* ------------------------------ C15 ------------------------------------ *)

\* C15 (as claimed): an invocation whose very first candidate date cannot be
\* fetched from any endpoint sends exactly one notification, which describes
\* the failure, and ends with the store unchanged.
C15_FailureNotified ==
    (pc = "done" /\ Len(fetch_log) = 1) =>
        /\ Len(sent) = 1
        /\ sent[1].kind = "failure"
        /\ disk = run.disk

(* ------------------------------ C16 ------------------------------------ *)

\* C16 (as claimed): a failure of send_message, send_photo or build_chart
\* leaves the persisted store as save_rates wrote it and does not end
\* process_rates: no invocation ends with the exception.
C16_TransportNotFatal ==
    /\ pc = "raised" => Persisted = rates_data
    /\ pc # "raised"

(* ------------------------------ C17 ------------------------------------ *)

\* C17 (as claimed): an invocation that finds rates.json present but
\* unreadable starts from the empty store, so with today as the first
\* candidate date, and prints a line about the failed load.  (The program
\* prints lines for the start, an endpoint error, no data, an already saved
\* date and a sent date.)
C17_CorruptionLogged ==
    (pc # "idle" /\ run.disk.state = "partial") =>
        /\ AllDates(LoadedAtStart) = {}
        /\ log[1] = Line("start", "", run.start)
        /\ ~changed => run.start = today
        /\ \E i \in 1..Len(log) : log[i].line = "load_error"

(* ------------------------------ C19 ------------------------------------ *)

\* the dates for which every configured currency has a rate
CompleteDates(store) ==
    {s \in AllDates(store) : \A c \in CurrencySet : Has(GetSeries(store, c), s)}

\* C19: every store that save_rates has persisted holds, for each date, a
\* rate for all configured currencies or for none; so the latest date for
\* which all currencies have a rate is the maximum date over all series.
C19_CrossCurrencyComplete ==
    disk.state = "json" =>
        /\ \A c \in CurrencySet : DateKeys(Persisted, c) = AllDates(Persisted)
        /\ CompleteDates(Persisted) # {}
        /\ MaxOf({FromIsoFormat(s) : s \in CompleteDates(Persisted)})
               = LatestDate(Persisted)

\* save_rates has persisted a store of several dates
C19_Witness ==
    /\ disk.state = "json"
    /\ pc = "send_message"
    /\ Cardinality(AllDates(Persisted)) >= 3

(* ------------------------------ C20 ------------------------------------ *)

\* the dates the current invocation got a snapshot for, in request order
RECURSIVE Answered(_)
Answered(k) ==
    IF k = 0 THEN <<>>
    ELSE IF Offers(fetch_log[k]) THEN Append(Answered(k - 1), IsoFormat(fetch_log[k]))
         ELSE Answered(k - 1)

\* C20: whenever process_rates is about to request a candidate date, that
\* date is later than every date of the in-memory store, so the program never
\* prints that a date is already saved; and between two passes of the loop,
\* and when the loop has ended at a date without data, every snapshot request_rates returned so far has been appended under its
\* candidate date, saved and announced with one text.
C20_AlwaysNewDate ==
    /\ pc \in {"request", "request_next"} =>
          \A s \in AllDates(rates_data) : FromIsoFormat(s) < current_date
    /\ \A i \in 1..Len(log) : log[i].line # "already_saved"
    /\ (pc \in {"request", "done"} /\ ~changed) =>
          /\ TextDates = Answered(Len(fetch_log))
          /\ Persisted = rates_data
          /\ \A k \in 1..Len(TextDates) :
                \A c \in CurrencySet : Has(GetSeries(Persisted, c), TextDates[k])

\* an invocation that began with dates in the store has processed two
\* snapshots and is about to request a third date
C20_Witness ==
    /\ pc = "request"
    /\ AllDates(LoadedAtStart) # {}
    /\ Len(TextDates) = 2

(* ------------------------------ C13 ------------------------------------ *)

\* the current invocation has called request_rates and the last call has
\* returned; the last call was for this date
HasRequested ==
    /\ pc \notin {"idle", "request_next"}
    /\ ~(pc = "killed" /\ exit_at = "request_next")
    /\ fetch_log # <<>>

LastRequested == fetch_log[Len(fetch_log)]

\* the answer of the j-th endpoint for date d holds every configured currency
Complete(j, d) ==
    LET r == HttpGet(API_URLS[j], d)
    IN  /\ r.ok
        /\ \A c \in CurrencySet : \E i \in 1..Len(r.data) : r.data[i].Cur_Abbreviation = c

\* the entries of the configured currencies in the answer of the j-th endpoint
DataOf(j, d) ==
    LET data == HttpGet(API_URLS[j], d).data
    IN  [c \in CurrencySet |->
            data[CHOOSE i \in 1..Len(data) : data[i].Cur_Abbreviation = c]]

\* C13: request_rates sends its requests to the endpoints of API_URLS in list
\* order, one per endpoint, up to and including the first endpoint whose
\* answer holds all configured currencies, and returns the data of that
\* endpoint, whatever the endpoints before it answered (an error, an empty
\* or an incomplete list); it asks all endpoints when none is complete.
C13_EndpointFallback ==
    (pc # "idle" /\ fetch_log # <<>>) =>
        LET d == LastRequested
            n == Len(requests)
        IN  /\ n \in 1..Len(API_URLS)
            /\ requests = SubSeq(API_URLS, 1, n)
            /\ \A j \in 1..(n - 1) : ~Complete(j, d)
            /\ HasRequested =>
                  IF Complete(n, d)
                  THEN rates = DataOf(n, d)
                  ELSE n = Len(API_URLS) /\ rates = None

\* the first endpoint failed and the data of the second one was returned
C13_Witness ==
    /\ HasRequested
    /\ ~HttpGet(API_URLS[1], LastRequested).ok
    /\ requests = API_URLS
    /\ rates = DataOf(2, LastRequested)

(* ------------------------------ C14 ------------------------------------ *)

\* C14: when no endpoint answers a date with all configured currencies, be
\* it with an error, an empty list or a list of only some of them,
\* request_rates has asked every endpoint and returns None, and the cycle
\* ends as for a date without data: nothing is stored under that date, in
\* memory or in the file, and no text is sent for it.
C14_PartialRejected ==
    (HasRequested /\ \A j \in 1..Len(API_URLS) : ~Complete(j, LastRequested)) =>
        /\ requests = API_URLS
        /\ rates = None
        /\ pc = "done"
        /\ log[Len(log)] = Line("no_data", "", LastRequested)
        /\ \A c \in CurrencySet :
              /\ ~Has(GetSeries(rates_data, c), IsoFormat(LastRequested))
              /\ ~Has(GetSeries(Persisted, c), IsoFormat(LastRequested))
        /\ \A k \in 1..Len(sent) : sent[k].date # IsoFormat(LastRequested)

\* after a date that was stored and announced, the two endpoints answered
\* the next date with one configured currency each
C14_Witness ==
    /\ HasRequested
    /\ upstream[LastRequested] = "split"
    /\ pc = "done"
    /\ Len(TextDates) >= 1

(* ------------------------------ C18 ------------------------------------ *)

\* C18: the first candidate date of an invocation is today when no series
\* of the loaded store holds a date; otherwise it is the day after a date
\* that some series holds, and later than every date of every series.
C18_StartDate ==
    (pc = "request" /\ fetch_log = <<>>) =>
        LET held == {FromIsoFormat(s) : s \in AllDates(LoadedAtStart)}
        IN  IF held = {} THEN current_date = today
            ELSE /\ current_date - 1 \in held
                 /\ \A x \in held : x < current_date

\* an invocation begins on a store whose latest date is held by the series
\* of the second currency only
C18_Witness ==
    /\ pc = "request" /\ fetch_log = <<>>
    /\ DateKeys(LoadedAtStart, CURRENCIES[1]) # {}
    /\ \E s \in DateKeys(LoadedAtStart, CURRENCIES[2]) :
          /\ FromIsoFormat(s) = LatestDate(LoadedAtStart)
          /\ s \notin DateKeys(LoadedAtStart, CURRENCIES[1])

====
